---- MODULE Spec2Model ----
(***************************************************************************)
(* Model of the commit-summary GitHub Action (show_off_action).            *)
(*                                                                         *)
(* Two variants of the program are kept in the repository: src/index.js    *)
(* (variant "js") and src/unnamed/part_000 (variant "ts").  Both are       *)
(* modelled; the variable `variant` says which one a behaviour runs.       *)
(*                                                                         *)
(* Program strings are sequences of one-character strings, so that trim,   *)
(* substring, JSON.parse and Number.prototype.toString are computed and    *)
(* not assumed.                                                            *)
(***************************************************************************)
EXTENDS Integers, Sequences, FiniteSets, TLC

(***************************************************************************)
(* Strings                                                                 *)
(***************************************************************************)

\* A TLA+ string literal as a program string (sequence of characters).
Chars(s) == [i \in 1..Len(s) |-> SubSeq(s, i, i)]

\* The characters String.prototype.trim removes that occur in the model.
WhiteSpace == {" ", "\t", "\n", "\r"}

Digits == <<"0", "1", "2", "3", "4", "5", "6", "7", "8", "9">>

IsDigit(c) == \E d \in 1..10 : Digits[d] = c

DigitValue(c) == (CHOOSE d \in 1..10 : Digits[d] = c) - 1

RECURSIVE TrimStart(_)
TrimStart(s) ==
  IF s # <<>> /\ Head(s) \in WhiteSpace THEN TrimStart(Tail(s)) ELSE s

RECURSIVE TrimEnd(_)
TrimEnd(s) ==
  IF s # <<>> /\ s[Len(s)] \in WhiteSpace
    THEN TrimEnd(SubSeq(s, 1, Len(s) - 1))
    ELSE s

\* String.prototype.trim
Trim(s) == TrimEnd(TrimStart(s))

\* variant of Substring: the character before position b is left out too
SubstringOneShort(s, a, b) ==
  LET hi == IF b - 1 > Len(s) THEN Len(s) ELSE b - 1
      lo == IF a > hi THEN hi ELSE a
  IN  SubSeq(s, lo + 1, hi)

\* String.prototype.substring(a, b) with 0 <= a <= b, clamped to the length.
Substring(s, a, b) ==
  LET hi == IF b > Len(s) THEN Len(s) ELSE b
      lo == IF a > hi THEN hi ELSE a
  IN  SubSeq(s, lo + 1, hi)

\* String.prototype.startsWith / endsWith
StartsWith(s, p) == Len(s) >= Len(p) /\ SubSeq(s, 1, Len(p)) = p

EndsWith(s, p) ==
  Len(s) >= Len(p) /\ SubSeq(s, Len(s) - Len(p) + 1, Len(s)) = p

\* Number.prototype.toString for a non-negative integer: decimal digits,
\* most significant first, no leading zeros.
RECURSIVE NumberToString(_)
NumberToString(n) ==
  IF n < 10
    THEN <<Digits[n + 1]>>
    ELSE Append(NumberToString(n \div 10), Digits[(n % 10) + 1])

(***************************************************************************)
(* JSON values and JSON.parse                                              *)
(***************************************************************************)

JUndefined == [t |-> "undefined"]
JNull      == [t |-> "null"]
JBool(b)   == [t |-> "bool", v |-> b]
JNum(n)    == [t |-> "num", v |-> n]
JStr(s)    == [t |-> "str", v |-> s]
JArr(xs)   == [t |-> "arr", v |-> xs]
\* an object is the sequence of its <<key, value>> members in source order
JObj(ms)   == [t |-> "obj", v |-> ms]

\* result of a parsing step: the value and the position after it, or failure
POk(val, pos) == [ok |-> TRUE, val |-> val, pos |-> pos]
PFail         == [ok |-> FALSE]

RECURSIVE SkipWs(_, _)
SkipWs(s, i) ==
  IF i <= Len(s) /\ s[i] \in WhiteSpace THEN SkipWs(s, i + 1) ELSE i

\* s has the literal word w at position i
HasWord(s, i, w) ==
  i + Len(w) - 1 <= Len(s) /\ SubSeq(s, i, i + Len(w) - 1) = w

\* the characters of a string literal whose opening quote has been read;
\* i is the position of the next character, acc the characters so far
RECURSIVE ParseStringTail(_, _, _)
ParseStringTail(s, i, acc) ==
  IF i > Len(s) THEN PFail
  ELSE IF s[i] = "\"" THEN POk(acc, i + 1)
  ELSE IF s[i] \in {"\n", "\t", "\r"} THEN PFail
  ELSE IF s[i] = "\\" THEN
    IF i + 1 > Len(s) THEN PFail
    ELSE IF s[i + 1] \in {"\"", "\\", "/"}
      THEN ParseStringTail(s, i + 2, Append(acc, s[i + 1]))
    ELSE IF s[i + 1] = "n" THEN ParseStringTail(s, i + 2, Append(acc, "\n"))
    ELSE IF s[i + 1] = "t" THEN ParseStringTail(s, i + 2, Append(acc, "\t"))
    ELSE IF s[i + 1] = "r" THEN ParseStringTail(s, i + 2, Append(acc, "\r"))
    ELSE PFail
  ELSE ParseStringTail(s, i + 1, Append(acc, s[i]))

RECURSIVE ParseDigits(_, _, _)
ParseDigits(s, i, acc) ==
  IF i <= Len(s) /\ IsDigit(s[i])
    THEN ParseDigits(s, i + 1, acc * 10 + DigitValue(s[i]))
    ELSE POk(JNum(acc), i)

RECURSIVE ParseValue(_, _)
RECURSIVE ParseElements(_, _, _)
RECURSIVE ParseMembers(_, _, _)

\* the elements of an array after "[" or after a ","
ParseElements(s, i, acc) ==
  LET e == ParseValue(s, i)
  IN  IF ~e.ok THEN PFail
      ELSE LET j == SkipWs(s, e.pos)
           IN  IF j > Len(s) THEN PFail
               ELSE IF s[j] = "," THEN ParseElements(s, j + 1, Append(acc, e.val))
               ELSE IF s[j] = "]" THEN POk(JArr(Append(acc, e.val)), j + 1)
               ELSE PFail

\* the members of an object after "{" or after a ","
ParseMembers(s, i, acc) ==
  LET k == SkipWs(s, i)
  IN  IF k > Len(s) \/ s[k] # "\"" THEN PFail
      ELSE LET key == ParseStringTail(s, k + 1, <<>>)
           IN  IF ~key.ok THEN PFail
               ELSE LET c == SkipWs(s, key.pos)
                    IN  IF c > Len(s) \/ s[c] # ":" THEN PFail
                        ELSE LET e == ParseValue(s, c + 1)
                             IN  IF ~e.ok THEN PFail
                                 ELSE LET j  == SkipWs(s, e.pos)
                                          ms == Append(acc, <<key.val, e.val>>)
                                      IN  IF j > Len(s) THEN PFail
                                          ELSE IF s[j] = "," THEN ParseMembers(s, j + 1, ms)
                                          ELSE IF s[j] = "}" THEN POk(JObj(ms), j + 1)
                                          ELSE PFail

ParseValue(s, i0) ==
  LET i == SkipWs(s, i0)
  IN  IF i > Len(s) THEN PFail
      ELSE IF s[i] = "{" THEN
        LET j == SkipWs(s, i + 1)
        IN  IF j <= Len(s) /\ s[j] = "}" THEN POk(JObj(<<>>), j + 1)
            ELSE ParseMembers(s, i + 1, <<>>)
      ELSE IF s[i] = "[" THEN
        LET j == SkipWs(s, i + 1)
        IN  IF j <= Len(s) /\ s[j] = "]" THEN POk(JArr(<<>>), j + 1)
            ELSE ParseElements(s, i + 1, <<>>)
      ELSE IF s[i] = "\"" THEN
        LET r == ParseStringTail(s, i + 1, <<>>)
        IN  IF r.ok THEN POk(JStr(r.val), r.pos) ELSE PFail
      ELSE IF IsDigit(s[i]) THEN
        IF s[i] = "0" /\ i + 1 <= Len(s) /\ IsDigit(s[i + 1])
          THEN PFail
          ELSE ParseDigits(s, i, 0)
      ELSE IF HasWord(s, i, Chars("true")) THEN POk(JBool(TRUE), i + 4)
      ELSE IF HasWord(s, i, Chars("false")) THEN POk(JBool(FALSE), i + 5)
      ELSE IF HasWord(s, i, Chars("null")) THEN POk(JNull, i + 4)
      ELSE PFail

\* JSON.parse(text): [ok |-> TRUE, val |-> value], or [ok |-> FALSE] where
\* JSON.parse throws a SyntaxError.
JSONParse(text) ==
  LET r == ParseValue(text, 1)
  IN  IF r.ok /\ SkipWs(text, r.pos) > Len(text)
        THEN [ok |-> TRUE, val |-> r.val]
        ELSE [ok |-> FALSE]

(***************************************************************************)
(* JavaScript evaluation of the expressions generateSummary applies to the *)
(* parsed response                                                         *)
(***************************************************************************)

\* result of evaluating an expression: a value, or a thrown TypeError
Value(v) == [throws |-> FALSE, val |-> v]
Throws   == [throws |-> TRUE]

\* ToBoolean
Truthy(v) ==
  CASE v.t = "undefined" -> FALSE
    [] v.t = "null"      -> FALSE
    [] v.t = "bool"      -> v.v
    [] v.t = "num"       -> v.v # 0
    [] v.t = "str"       -> v.v # <<>>
    [] OTHER             -> TRUE

\* the value of the last member of an object with the given key
RECURSIVE Lookup(_, _)
Lookup(ms, key) ==
  IF ms = <<>> THEN JUndefined
  ELSE IF ms[Len(ms)][1] = key THEN ms[Len(ms)][2]
  ELSE Lookup(SubSeq(ms, 1, Len(ms) - 1), key)

\* v.key for a named property (choices, message, content): reading a
\* property of null or undefined throws, of any other non-object is undefined
GetProp(v, key) ==
  CASE v.t \in {"undefined", "null"} -> Throws
    [] v.t = "obj"                   -> Value(Lookup(v.v, key))
    [] OTHER                         -> Value(JUndefined)

\* v[0]
GetFirst(v) ==
  CASE v.t \in {"undefined", "null"} -> Throws
    [] v.t = "arr" -> Value(IF v.v = <<>> THEN JUndefined ELSE v.v[1])
    [] v.t = "obj" -> Value(Lookup(v.v, <<"0">>))
    [] v.t = "str" -> Value(IF v.v = <<>> THEN JUndefined ELSE JStr(<<v.v[1]>>))
    [] OTHER       -> Value(JUndefined)

(***************************************************************************)
(* Failure messages                                                        *)
(***************************************************************************)

ConfigErrorMsg   == Chars("BlackBox API key is required")
NoCommitMsg      == Chars("Could not retrieve commit data and no changes provided")
InvalidFormatMsg == Chars("Invalid response format from BlackBox AI")
ParseFailedPrefix == Chars("Failed to parse BlackBox AI response: ")
SummaryTimeoutMsg  == Chars("BlackBox AI request timeout")
DeliveryTimeoutMsg == Chars("Request timeout")
InvalidUrlMsg    == Chars("Invalid URL")
NoApiResponse    == Chars("No API configured - summary generated only")

\* messages of the errors the JavaScript engine throws inside the 'end'
\* handler: JSON.parse's SyntaxError and the TypeError of a bad property read
SyntaxErrorText == Chars("Unexpected end of JSON input")
TypeErrorText   == Chars("Cannot read properties of undefined")

\* messages of the errors the http client emits as 'error' on the request
TransportErrors ==
  { Chars("getaddrinfo ENOTFOUND"), Chars("connect ECONNREFUSED"),
    Chars("read ECONNRESET") }
SocketHangUp == Chars("socket hang up")

(***************************************************************************)
(* generateSummary: the 'end' handler                                      *)
(***************************************************************************)

Resolve(v) == [kind |-> "resolve", val |-> v, err |-> <<>>]
Reject(m)  == [kind |-> "reject", val |-> <<>>, err |-> m]

\* variant of SummaryOnEnd: a missing content counts as an empty summary
\* and a parse error is passed on as it is
SummaryOnEndLenient(data) ==
  LET parsed == JSONParse(data)
  IN  IF ~parsed.ok THEN Reject(SyntaxErrorText)
      ELSE
        LET response == parsed.val
            choices  == GetProp(response, <<"c","h","o","i","c","e","s">>)
        IN  IF choices.throws THEN Reject(TypeErrorText)
            ELSE IF ~Truthy(choices.val) THEN Reject(InvalidFormatMsg)
            ELSE
              LET first == GetFirst(choices.val)
              IN  IF ~Truthy(first.val) THEN Reject(InvalidFormatMsg)
                  ELSE
                    LET message == GetProp(first.val, <<"m","e","s","s","a","g","e">>)
                    IN  IF ~Truthy(message.val) THEN Reject(InvalidFormatMsg)
                        ELSE
                          LET content == GetProp(message.val, <<"c","o","n","t","e","n","t">>)
                          IN  IF content.val.t = "str"
                                THEN Resolve(Trim(content.val.v))
                                ELSE Resolve(<<>>)

\* The outcome of res.on('end') for the accumulated body `data`.
SummaryOnEnd(data) ==
  LET parsed == JSONParse(data)
  IN  IF ~parsed.ok THEN Reject(ParseFailedPrefix \o SyntaxErrorText)
      ELSE
        LET response == parsed.val
            choices  == GetProp(response, <<"c","h","o","i","c","e","s">>)
        IN  IF choices.throws THEN Reject(ParseFailedPrefix \o TypeErrorText)
            ELSE IF ~Truthy(choices.val) THEN Reject(InvalidFormatMsg)
            ELSE
              LET first == GetFirst(choices.val)
              IN  IF ~Truthy(first.val) THEN Reject(InvalidFormatMsg)
                  ELSE
                    LET message == GetProp(first.val, <<"m","e","s","s","a","g","e">>)
                    IN  IF ~Truthy(message.val) THEN Reject(InvalidFormatMsg)
                        ELSE
                          LET content == GetProp(message.val, <<"c","o","n","t","e","n","t">>)
                          IN  IF content.val.t = "str"
                                THEN Resolve(Trim(content.val.v))
                                ELSE Reject(ParseFailedPrefix \o TypeErrorText)

(***************************************************************************)
(* new URL(apiUrl): the parts sendToAPI reads                              *)
(***************************************************************************)

Letters == { "a","b","c","d","e","f","g","h","i","j","k","l","m","n","o","p",
             "q","r","s","t","u","v","w","x","y","z" }

\* first position >= i of s holding a character of cs, Len(s) + 1 if none
RECURSIVE FindFirst(_, _, _)
FindFirst(s, i, cs) ==
  IF i > Len(s) THEN Len(s) + 1
  ELSE IF s[i] \in cs THEN i
  ELSE FindFirst(s, i + 1, cs)

\* first position >= i of s holding a character outside cs, Len(s) + 1 if none
RECURSIVE SkipAll(_, _, _)
SkipAll(s, i, cs) ==
  IF i <= Len(s) /\ s[i] \in cs THEN SkipAll(s, i + 1, cs) ELSE i

UrlFail == [ok |-> FALSE]

\* The URL record of an absolute http: or https: URL (the schemes the input
\* set uses); new URL throws TypeError "Invalid URL" on a string without a
\* scheme, with an empty host or with a space in the host.  pathname is "/"
\* when the URL has no path, search is "" when the query is absent or empty,
\* and the fragment belongs to neither.
ParseURL(s) ==
  LET colon == FindFirst(s, 1, {":"})
      scheme == SubSeq(s, 1, colon - 1)
  IN  IF colon > Len(s) \/ scheme = <<>>
         \/ \E i \in 1..Len(scheme) : scheme[i] \notin Letters
        THEN UrlFail
      ELSE IF scheme \notin {Chars("http"), Chars("https")} THEN UrlFail
      ELSE
        LET hostStart == SkipAll(s, colon + 1, {"/", "\\"})
            hostEnd   == FindFirst(s, hostStart, {"/", "\\", "?", "#"})
            authority == SubSeq(s, hostStart, hostEnd - 1)
            portColon == FindFirst(authority, 1, {":"})
            hostname  == SubSeq(authority, 1, portColon - 1)
            port      == SubSeq(authority, portColon + 1, Len(authority))
            pathEnd   == FindFirst(s, hostEnd, {"?", "#"})
            rawPath   == SubSeq(s, hostEnd, pathEnd - 1)
            queryEnd  == FindFirst(s, pathEnd, {"#"})
            rawQuery  == SubSeq(s, pathEnd, queryEnd - 1)
        IN  IF hostname = <<>> \/ \E j \in 1..Len(hostname) : hostname[j] = " "
                 \/ \E k \in 1..Len(port) : ~IsDigit(port[k])
              THEN UrlFail
              ELSE [ ok       |-> TRUE,
                     protocol |-> Append(scheme, ":"),
                     hostname |-> hostname,
                     port     |-> port,
                     pathname |-> IF rawPath = <<>> THEN <<"/">> ELSE rawPath,
                     search   |-> IF Len(rawQuery) <= 1 THEN <<>> ELSE rawQuery ]

GenerateContent == Chars("/generate-content")

\* the path before the query is appended: url.pathname, with
\* path.replace(/\/$/, '') + '/generate-content' unless it ends with that
NormalizedPath(url) ==
  LET path == url.pathname
      stripped == IF path # <<>> /\ path[Len(path)] = "/"
                    THEN SubSeq(path, 1, Len(path) - 1)
                    ELSE path
  IN  IF EndsWith(path, GenerateContent)
        THEN path
        ELSE stripped \o GenerateContent

\* variant of RequestPath: the query of the URL is not carried over
RequestPathDropsQuery(url) == NormalizedPath(url)

\* sendToAPI's request path: the normalized path, then url.search
RequestPath(url) == NormalizedPath(url) \o url.search

\* outcome of one execSync: the command's output, or a thrown error
ExecOk(out) == [ok |-> TRUE, out |-> Chars(out)]
ExecFail    == [ok |-> FALSE, out |-> <<>>]

(***************************************************************************)
(* sendToAPI: repository identifier and request body                       *)
(***************************************************************************)

GithubCom == Chars("github.com")

UnknownRepository == Chars("unknown/repository")

Unknown == Chars("unknown")

NoMatch == [ok |-> FALSE]

\* /github\.com[:/]([^/]+\/[^/.]+)/ tried at position i of s: "github.com",
\* one of ":" and "/", the longest run of characters other than "/" (not
\* empty), a "/", the longest run of characters other than "/" and "." (not
\* empty).  The result is the capture group.
MatchAt(s, i) ==
  LET sep   == i + Len(GithubCom)
      slash == FindFirst(s, sep + 1, {"/"})
      stop  == FindFirst(s, slash + 1, {"/", "."})
  IN  IF /\ HasWord(s, i, GithubCom)
         /\ sep <= Len(s) /\ s[sep] \in {":", "/"}
         /\ slash > sep + 1 /\ slash <= Len(s)
         /\ stop > slash + 1
        THEN [ok |-> TRUE, group |-> SubSeq(s, sep + 1, stop - 1)]
        ELSE NoMatch

\* remoteUrl.match(...): the leftmost match, from position i on
RECURSIVE MatchFrom(_, _)
MatchFrom(s, i) ==
  IF i > Len(s) THEN NoMatch
  ELSE IF MatchAt(s, i).ok THEN MatchAt(s, i)
  ELSE MatchFrom(s, i + 1)

\* the repository identifier taken from the outcome of
\* `git config --get remote.origin.url`
RepositoryFromRemote(remote) ==
  IF ~remote.ok THEN UnknownRepository
  ELSE LET match == MatchFrom(Trim(remote.out), 1)
       IN  IF match.ok THEN match.group ELSE UnknownRepository

\* process.env.GITHUB_REPOSITORY || the identifier from the git remote
Repository(env) ==
  IF env.GITHUB_REPOSITORY # <<>>
    THEN env.GITHUB_REPOSITORY
    ELSE RepositoryFromRemote(env.remote)

\* variant of Payload: the environment's ref name goes before the commit
\* record's branch
PayloadRefNameFirst(env, text, commit, now) ==
  [ summary    |-> text,
    repository |-> Repository(env),
    commit_sha |-> IF commit.null \/ commit.hash = <<>>
                     THEN Unknown ELSE commit.hash,
    branch     |-> IF env.GITHUB_REF_NAME # <<>> THEN env.GITHUB_REF_NAME
                   ELSE IF ~commit.null /\ commit.branch # <<>>
                     THEN commit.branch
                   ELSE Unknown,
    timestamp  |-> now ]

\* the object sendToAPI serializes: `a || b` takes b when a is "" or missing
Payload(env, text, commit, now) ==
  [ summary    |-> text,
    repository |-> Repository(env),
    commit_sha |-> IF commit.null \/ commit.hash = <<>>
                     THEN Unknown ELSE commit.hash,
    branch     |-> IF ~commit.null /\ commit.branch # <<>> THEN commit.branch
                   ELSE IF env.GITHUB_REF_NAME # <<>> THEN env.GITHUB_REF_NAME
                   ELSE Unknown,
    timestamp  |-> now ]

\* JSON.stringify of a string: quoted, with the escapes of the characters
\* the model uses
RECURSIVE Escape(_)
Escape(s) ==
  IF s = <<>> THEN <<>>
  ELSE (CASE Head(s) = "\"" -> <<"\\", "\"">>
          [] Head(s) = "\\" -> <<"\\", "\\">>
          [] Head(s) = "\n" -> <<"\\", "n">>
          [] Head(s) = "\t" -> <<"\\", "t">>
          [] Head(s) = "\r" -> <<"\\", "r">>
          [] OTHER          -> <<Head(s)>>) \o Escape(Tail(s))

Quote(s) == <<"\"">> \o Escape(s) \o <<"\"">>

\* the order in which the payload's keys are written
PayloadKeys(v) ==
  IF v = "js"
    THEN <<"summary", "repository", "commit_sha", "branch", "timestamp">>
    ELSE <<"repository", "commit_sha", "branch", "summary", "timestamp">>

\* members i.. of the serialized payload
RECURSIVE StringifyMembers(_, _, _)
StringifyMembers(payload, keys, i) ==
  IF i > Len(keys) THEN <<>>
  ELSE (IF i = 1 THEN <<>> ELSE <<",">>)
       \o Quote(Chars(keys[i])) \o <<":">> \o Quote(payload[keys[i]])
       \o StringifyMembers(payload, keys, i + 1)

\* JSON.stringify(payload)
StringifyPayload(v, payload) ==
  <<"{">> \o StringifyMembers(payload, PayloadKeys(v), 1) \o <<"}">>

(***************************************************************************)
(* getCommitChanges                                                        *)
(***************************************************************************)

\* The outcomes of the six repository queries of one run.
\* outputs of the hash query that are shorter than, or just as long as, the
\* eight characters of a short hash
ShortHashes == {"0123456\n", "01234567\n"}

GitOutcomes ==
  [ message : {ExecFail, ExecOk("fix typo\n")},
    hash    : {ExecFail, ExecOk("0123456789abcdef\n")},
    files   : {ExecFail, ExecOk("M\ta.js\n")},
    diff    : {ExecFail, ExecOk("a.js\n")},
    branch1 : {ExecFail, ExecOk("main\n"), ExecOk("\n")},
    branch2 : {ExecFail, ExecOk("HEAD\n")} ]
  \cup
  { [ message |-> ExecOk("fix typo\n"), hash |-> ExecOk(h),
      files |-> ExecOk("M\ta.js\n"), diff |-> ExecOk("a.js\n"),
      branch1 |-> ExecOk("main\n"), branch2 |-> ExecOk("HEAD\n") ] :
    h \in ShortHashes }

NoCommit == [null |-> TRUE]

\* variant of BranchQuery: there is no alternate query
BranchQueryPrimaryOnly(v, g) ==
  IF g.branch1.ok THEN [ok |-> TRUE, out |-> Trim(g.branch1.out)]
                  ELSE ExecFail

\* the branch of the commit record, or ExecFail when the query (or its
\* alternate) throws: index.js takes the alternate query when the primary
\* yields the empty string, part_000 when the primary throws
BranchQuery(v, g) ==
  IF v = "js"
    THEN IF ~g.branch1.ok THEN ExecFail
         ELSE IF Trim(g.branch1.out) # <<>>
           THEN [ok |-> TRUE, out |-> Trim(g.branch1.out)]
         ELSE IF ~g.branch2.ok THEN ExecFail
         ELSE [ok |-> TRUE, out |-> Trim(g.branch2.out)]
    ELSE IF g.branch1.ok THEN [ok |-> TRUE, out |-> Trim(g.branch1.out)]
         ELSE IF ~g.branch2.ok THEN ExecFail
         ELSE [ok |-> TRUE, out |-> Trim(g.branch2.out)]

\* variant of GetCommitChanges: a failing touched-paths query is taken as an
\* empty listing
GetCommitChangesLenientDiff(v, g) ==
  LET branch == BranchQuery(v, g)
  IN  IF ~g.message.ok \/ ~g.hash.ok \/ ~g.files.ok \/ ~branch.ok
        THEN NoCommit
        ELSE [ null      |-> FALSE,
               message   |-> Trim(g.message.out),
               hash      |-> Trim(g.hash.out),
               shortHash |-> Substring(Trim(g.hash.out), 0, 8),
               files     |-> Trim(g.files.out),
               diff      |-> Trim(g.diff.out),
               branch    |-> branch.out ]

\* getCommitChanges under variant v with query outcomes g: the commit
\* record, or null (NoCommit) when a query throws inside the try block.
GetCommitChanges(v, g) ==
  LET branch == BranchQuery(v, g)
  IN  IF ~g.message.ok \/ ~g.hash.ok \/ ~g.files.ok \/ ~g.diff.ok \/ ~branch.ok
        THEN NoCommit
        ELSE [ null      |-> FALSE,
               message   |-> Trim(g.message.out),
               hash      |-> Trim(g.hash.out),
               shortHash |-> Substring(Trim(g.hash.out), 0, 8),
               files     |-> Trim(g.files.out),
               diff      |-> Trim(g.diff.out),
               branch    |-> branch.out ]

(***************************************************************************)
(* Inputs and remote responses of the model                                *)
(***************************************************************************)

Variants == {"js", "ts"}

\* values core.getInput returns (it trims, and yields "" for an unset input)
ChangesInputs  == {<<>>, Chars("fix: typo in README")}
BlackboxKeys   == {<<>>, Chars("bb-0123456789abcdef")}
ApiKeys        == {<<>>, Chars("tk-secret-42")}
ApiUrls        == { <<>>, Chars("https://x.com/a/"),
                    Chars("http://h.io/generate-content?k=v"),
                    Chars("not a url") }

Inputs ==
  [ changes : ChangesInputs, blackboxApiKey : BlackboxKeys,
    apiKey : ApiKeys, apiUrl : ApiUrls ]

\* what sendToAPI reads from its surroundings: two environment variables
\* ("" when unset) and the outcome of `git config --get remote.origin.url`
Env(repository, refName, remote) ==
  [GITHUB_REPOSITORY |-> Chars(repository), GITHUB_REF_NAME |-> Chars(refName),
   remote |-> remote]

Envs ==
  { Env("octo/app", "main", ExecFail),
    Env("", "", ExecOk("git@github.com:owner/repo.git\n")) }

\* new Date().toISOString() at the time of the delivery
Now == Chars("2024-05-06T07:08:09.000Z")

\* bodies the summarization endpoint may answer with
SummaryBodies ==
  { Chars("{\"choices\":[{\"message\":{\"content\":\" Hello \"}}]}"),
    Chars("{\"choices\":[{\"message\":{\"content\":\"\"}}]}"),
    Chars("{\"choices\":[{\"message\":{\"content\":\"- a\\n- b\\n\"}},{}]}"),
    Chars("{\"choices\":{\"0\":{\"message\":{\"content\":\"obj\"}}}}"),
    Chars("{\"choices\":[{\"message\":{\"content\":5}}]}"),
    Chars("{\"choices\":[{\"message\":{\"content\":null}}]}"),
    Chars("{\"choices\":[{\"message\":{}}]}"),
    Chars("{\"choices\":[{\"message\":\"hi\"}]}"),
    Chars("{\"choices\":[{}]}"),
    Chars("{\"choices\":[]}"),
    Chars("{\"choices\":\"abc\"}"),
    Chars("{\"error\":\"bad key\"}"),
    Chars("{}"),
    Chars("null"),
    Chars("{\"choices\":[{\"mess"),
    Chars("<html>502</html>"),
    <<>> }

SummaryStatuses == {200, 500}

\* bodies and status codes the delivery endpoint may answer with
DeliveryBodies == { <<>>, Chars("ok"), Chars("{\"error\":\"not found\"}") }

DeliveryStatuses == {200, 204, 299, 300, 404, 500}

Calls == {"summ", "deliv"}

Bodies(c) == IF c = "summ" THEN SummaryBodies ELSE DeliveryBodies

Statuses(c) == IF c = "summ" THEN SummaryStatuses ELSE DeliveryStatuses

\* the largest number of chunks a response body arrives in
MaxChunks == 2

\* sizes of the next chunk of a body of which `rest` is still to arrive and
\* `chunks` chunks have arrived: all of it, or (unless this is the last
\* chunk the bound allows) its first half
ChunkSizes(rest, chunks) ==
  {Len(rest)} \cup
  (IF chunks + 1 < MaxChunks THEN {Len(rest) \div 2} \ {0} ELSE {})

(***************************************************************************)
(* State                                                                   *)
(***************************************************************************)

VARIABLES
  probe,       \* the function application under study (NoProbe in a run)
  variant,     \* which source file runs: "js" (index.js) or "ts" (part_000)
  inputs,      \* the values core.getInput returns
  pc,          \* position of run()
  git,         \* outcomes of the repository queries, once they were made
  commitData,  \* run's commitData: NoCommit (null) or the commit record
  summary,     \* run's summary
  outputs,     \* core.setOutput: output name -> value, for the outputs set
  failures,    \* the messages core.setFailed was called with, in order
  exitCode,    \* process.exitCode (core.setFailed sets it to 1)
  calls,       \* how often each component was invoked
  requests,    \* the http requests made, in order
  req,         \* per outbound call: the state of its request and response
  promise      \* per outbound call: the promise the call returned

vars == << probe, variant, inputs, pc, git, commitData, summary, outputs,
           failures,
           exitCode, calls, requests, req, promise >>

NoRequest == [phase |-> "none", responded |-> FALSE, status |-> 0,
              rest |-> <<>>, data |-> <<>>, chunks |-> 0]

\* no function application is under study
NoProbe == [kind |-> "none"]

NoPromise == [state |-> "none", val |-> <<>>, err |-> <<>>]

Pending == [state |-> "pending", val |-> <<>>, err |-> <<>>]

\* variant of Settle: a later settlement replaces an earlier one
SettleLastWins(p, outcome) ==
  IF p.state = "none" THEN p
  ELSE IF outcome.kind = "resolve"
    THEN [state |-> "resolved", val |-> outcome.val, err |-> <<>>]
    ELSE [state |-> "rejected", val |-> <<>>, err |-> outcome.err]

\* resolve/reject on a promise: only the first settlement takes effect
Settle(p, outcome) ==
  IF p.state # "pending" THEN p
  ELSE IF outcome.kind = "resolve"
    THEN [state |-> "resolved", val |-> outcome.val, err |-> <<>>]
    ELSE [state |-> "rejected", val |-> <<>>, err |-> outcome.err]

\* variant of SetOutput: setting an output drops the outputs set before
SetOutputAlone(outs, name, value) == [n \in {name} |-> value]

\* core.setOutput(name, value)
SetOutput(outs, name, value) ==
  [n \in DOMAIN outs \cup {name} |-> IF n = name THEN value ELSE outs[n]]

\* variant of KeyMissing: the key is only required when it will be used
KeyMissingUnlessChanges(in) == in.blackboxApiKey = <<>> /\ in.changes = <<>>

\* run's `if (!blackboxApiKey)`
KeyMissing(in) == in.blackboxApiKey = <<>>

\* variant of UseChanges: the supplied changes are never taken
UseChangesNever(in) == FALSE

\* run's `if (changes)`
UseChanges(in) == in.changes # <<>>

\* variant of HasApiConfig: the url is not looked at
HasApiConfigKeyOnly(v, in) == in.apiKey # <<>>

\* run's hasApiConfig: index.js needs api-key and api-url, part_000 api-url
HasApiConfig(v, in) ==
  IF v = "js" THEN in.apiKey # <<>> /\ in.apiUrl # <<>>
              ELSE in.apiUrl # <<>>

Bearer(key) == Chars("Bearer ") \o key

Init ==
  /\ probe = NoProbe
  /\ variant \in Variants
  /\ inputs \in Inputs
  /\ pc = "Init"
  /\ git = <<>>
  /\ commitData = NoCommit
  /\ summary = <<>>
  /\ outputs = <<>>
  /\ failures = <<>>
  /\ exitCode = 0
  /\ calls = [getCommitChanges |-> 0, generateSummary |-> 0, sendToAPI |-> 0]
  /\ requests = <<>>
  /\ req = [c \in Calls |-> NoRequest]
  /\ promise = [c \in Calls |-> NoPromise]

(***************************************************************************)
(* run()                                                                   *)
(***************************************************************************)

\* the catch block of run: core.error, core.setFailed(error.message)
Fail(msg) ==
  /\ pc' = "Failed"
  /\ failures' = Append(failures, msg)
  /\ exitCode' = 1

\* variant of ValidateConfig: the delivery key is required as well
ValidateConfigBothKeys ==
  /\ pc = "Init"
  /\ IF KeyMissing(inputs) \/ inputs.apiKey = <<>>
       THEN Fail(ConfigErrorMsg)
       ELSE pc' = "ConfigValidated" /\ UNCHANGED <<failures, exitCode>>
  /\ UNCHANGED << probe, variant, inputs, git, commitData, summary, outputs,
                  calls, requests, req, promise >>

\* run reads the inputs and validates the required one
ValidateConfig ==
  /\ pc = "Init"
  /\ IF KeyMissing(inputs)
       THEN Fail(ConfigErrorMsg)
       ELSE pc' = "ConfigValidated" /\ UNCHANGED <<failures, exitCode>>
  /\ UNCHANGED << probe, variant, inputs, git, commitData, summary, outputs,
                  calls, requests, req, promise >>

\* if (changes) summary = changes; else commitData = await getCommitChanges()
ResolveSource ==
  /\ pc = "ConfigValidated"
  /\ IF UseChanges(inputs)
       THEN /\ summary' = inputs.changes
            /\ pc' = "SummaryResolved"
            /\ UNCHANGED <<git, commitData, calls>>
       ELSE /\ \E g \in GitOutcomes :
                 /\ git' = g
                 /\ commitData' = GetCommitChanges(variant, g)
            /\ calls' = [calls EXCEPT !.getCommitChanges = @ + 1]
            /\ pc' = "AwaitCommit"
            /\ UNCHANGED summary
  /\ UNCHANGED << probe, variant, inputs, outputs, failures, exitCode, requests, req,
                  promise >>

\* the request generateSummary makes
SummaryRequest ==
  [ call |-> "summ", hostname |-> Chars("api.blackbox.ai"),
    path |-> Chars("/chat/completions"),
    authorization |-> Bearer(inputs.blackboxApiKey) ]

\* variant of StartSummary: an empty summary output is set before the
\* summary is generated
StartSummaryPublishing ==
  /\ pc = "AwaitCommit"
  /\ IF commitData.null
       THEN /\ Fail(NoCommitMsg)
            /\ UNCHANGED <<calls, requests, req, promise>>
       ELSE /\ calls' = [calls EXCEPT !.generateSummary = @ + 1]
            /\ requests' = Append(requests, SummaryRequest)
            /\ req' = [req EXCEPT !["summ"] = [NoRequest EXCEPT !.phase = "sent"]]
            /\ promise' = [promise EXCEPT !["summ"] = Pending]
            /\ pc' = "AwaitSummary"
            /\ UNCHANGED <<failures, exitCode>>
  /\ outputs' = SetOutput(outputs, "summary", <<>>)
  /\ UNCHANGED << probe, variant, inputs, git, commitData, summary >>

\* after getCommitChanges: fail on null, else call generateSummary, whose
\* executor makes the request and returns the pending promise
StartSummary ==
  /\ pc = "AwaitCommit"
  /\ IF commitData.null
       THEN /\ Fail(NoCommitMsg)
            /\ UNCHANGED <<calls, requests, req, promise>>
       ELSE /\ calls' = [calls EXCEPT !.generateSummary = @ + 1]
            /\ requests' = Append(requests, SummaryRequest)
            /\ req' = [req EXCEPT !["summ"] = [NoRequest EXCEPT !.phase = "sent"]]
            /\ promise' = [promise EXCEPT !["summ"] = Pending]
            /\ pc' = "AwaitSummary"
            /\ UNCHANGED <<failures, exitCode>>
  /\ UNCHANGED << probe, variant, inputs, git, commitData, summary, outputs >>

\* variant of ResumeSummary: a rejection is swallowed and the run goes on
\* with an empty summary
ResumeSummarySwallow ==
  /\ pc = "AwaitSummary"
  /\ promise["summ"].state \in {"resolved", "rejected"}
  /\ summary' = promise["summ"].val
  /\ pc' = "SummaryResolved"
  /\ UNCHANGED << probe, variant, inputs, git, commitData, outputs, failures,
                  exitCode, calls, requests, req, promise >>

\* summary = await generateSummary(...): the promise has settled
ResumeSummary ==
  /\ pc = "AwaitSummary"
  /\ promise["summ"].state \in {"resolved", "rejected"}
  /\ IF promise["summ"].state = "resolved"
       THEN /\ summary' = promise["summ"].val
            /\ pc' = "SummaryResolved"
            /\ UNCHANGED <<failures, exitCode>>
       ELSE /\ Fail(promise["summ"].err)
            /\ UNCHANGED summary
  /\ UNCHANGED << probe, variant, inputs, git, commitData, outputs, calls, requests,
                  req, promise >>

\* Buffer.byteLength of a string of one-byte characters
ByteLength(s) == Len(s)

ContentTypeJson == Chars("application/json")

UserAgent == Chars("GitHub-Action-Send-Changes/1.0")

\* the request sendToAPI makes for the parsed url in environment e: its
\* target, body and headers (a header that is not sent is <<>>); part_000
\* sends no Authorization header
DeliveryRequest(url, e) ==
  LET postData == StringifyPayload(variant, Payload(e, summary, commitData, Now))
  IN  [ call |-> "deliv", hostname |-> url.hostname, path |-> RequestPath(url),
        body |-> postData,
        contentType |-> ContentTypeJson,
        contentLength |-> ByteLength(postData),
        authorization |-> IF variant = "js" THEN Bearer(inputs.apiKey) ELSE <<>>,
        userAgent |-> UserAgent ]

\* variant of PublishSummary: sendToAPI is called whatever the inputs are
PublishSummaryAlways ==
  /\ pc = "SummaryResolved"
  /\ IF TRUE
       THEN LET url == ParseURL(inputs.apiUrl)
            IN  /\ outputs' = SetOutput(outputs, "summary", summary)
                /\ calls' = [calls EXCEPT !.sendToAPI = @ + 1]
                /\ pc' = "AwaitDelivery"
                /\ IF url.ok
                     THEN /\ \E e \in Envs :
                               requests' = Append(requests, DeliveryRequest(url, e))
                          /\ req' = [req EXCEPT !["deliv"] =
                                       [NoRequest EXCEPT !.phase = "sent"]]
                          /\ promise' = [promise EXCEPT !["deliv"] = Pending]
                     ELSE /\ promise' = [promise EXCEPT !["deliv"] =
                                           Settle(Pending, Reject(InvalidUrlMsg))]
                          /\ UNCHANGED <<requests, req>>
       ELSE /\ outputs' =
                 SetOutput(SetOutput(SetOutput(outputs, "summary", summary),
                                     "response", NoApiResponse),
                           "status", Chars("200"))
            /\ pc' = "Done"
            /\ UNCHANGED <<calls, requests, req, promise>>
  /\ UNCHANGED << probe, variant, inputs, git, commitData, summary, failures,
                  exitCode >>

\* core.setOutput('summary', summary), then either the call of sendToAPI
\* (new URL may throw; the executor's catch rejects the promise) or the
\* default outputs
PublishSummary ==
  /\ pc = "SummaryResolved"
  /\ IF HasApiConfig(variant, inputs)
       THEN LET url == ParseURL(inputs.apiUrl)
            IN  /\ outputs' = SetOutput(outputs, "summary", summary)
                /\ calls' = [calls EXCEPT !.sendToAPI = @ + 1]
                /\ pc' = "AwaitDelivery"
                /\ IF url.ok
                     THEN /\ \E e \in Envs :
                               requests' = Append(requests, DeliveryRequest(url, e))
                          /\ req' = [req EXCEPT !["deliv"] =
                                       [NoRequest EXCEPT !.phase = "sent"]]
                          /\ promise' = [promise EXCEPT !["deliv"] = Pending]
                     ELSE /\ promise' = [promise EXCEPT !["deliv"] =
                                           Settle(Pending, Reject(InvalidUrlMsg))]
                          /\ UNCHANGED <<requests, req>>
       ELSE /\ outputs' =
                 SetOutput(SetOutput(SetOutput(outputs, "summary", summary),
                                     "response", NoApiResponse),
                           "status", Chars("200"))
            /\ pc' = "Done"
            /\ UNCHANGED <<calls, requests, req, promise>>
  /\ UNCHANGED << probe, variant, inputs, git, commitData, summary, failures,
                  exitCode >>

\* variant of ResumeDelivery: a rejected delivery is reported in the outputs
\* and the run completes
ResumeDeliverySoft ==
  /\ pc = "AwaitDelivery"
  /\ promise["deliv"].state \in {"resolved", "rejected"}
  /\ outputs' =
       IF promise["deliv"].state = "resolved"
         THEN SetOutput(SetOutput(outputs, "response", promise["deliv"].val.body),
                        "status", NumberToString(promise["deliv"].val.statusCode))
         ELSE SetOutput(SetOutput(outputs, "response", promise["deliv"].err),
                        "status", <<"0">>)
  /\ pc' = "Done"
  /\ UNCHANGED << probe, variant, inputs, git, commitData, summary, failures,
                  exitCode, calls, requests, req, promise >>

\* response = await sendToAPI(...): the promise has settled
ResumeDelivery ==
  /\ pc = "AwaitDelivery"
  /\ promise["deliv"].state \in {"resolved", "rejected"}
  /\ IF promise["deliv"].state = "resolved"
       THEN LET response == promise["deliv"].val
            IN  /\ outputs' =
                     SetOutput(SetOutput(outputs, "response", response.body),
                               "status", NumberToString(response.statusCode))
                /\ pc' = "Done"
                /\ UNCHANGED <<failures, exitCode>>
       ELSE /\ Fail(promise["deliv"].err)
            /\ UNCHANGED outputs
  /\ UNCHANGED << probe, variant, inputs, git, commitData, summary, calls,
                  requests, req, promise >>

(***************************************************************************)
(* The http client's events and the handlers generateSummary and sendToAPI *)
(* register for them: res 'data', res 'end', req 'error', req 'timeout'.   *)
(* No handler is registered for a response that is cut off (res 'aborted', *)
(* res 'error', res 'close').                                              *)
(***************************************************************************)

\* variant of DeliveryOnEnd: a status outside 2xx rejects
DeliveryOnEndStrict(v, status, data) ==
  IF status \in 200..299
    THEN Resolve([statusCode |-> status, body |-> data])
    ELSE Reject(Chars("Request failed"))

\* sendToAPI's res.on('end'): the response, whatever its status code
DeliveryOnEnd(v, status, data) ==
  Resolve([ statusCode |-> IF v = "ts" /\ status = 0 THEN 0 ELSE status,
            body |-> data ])

\* variant of OnEnd: a summarization response with a status outside 2xx is
\* rejected whatever its body
OnEndChecksStatus(c, r) ==
  IF c = "summ"
    THEN IF r.status \in 200..299 THEN SummaryOnEnd(r.data)
                                  ELSE Reject(Chars("Request failed"))
    ELSE DeliveryOnEnd(variant, r.status, r.data)

\* the outcome of res.on('end') of call c for the request state r
OnEnd(c, r) ==
  IF c = "summ" THEN SummaryOnEnd(r.data)
                ELSE DeliveryOnEnd(variant, r.status, r.data)

TimeoutMsg(c) == IF c = "summ" THEN SummaryTimeoutMsg ELSE DeliveryTimeoutMsg

\* A settled promise resumes run() in a microtask, before the event loop
\* delivers another event.
ResumeDue ==
  \/ pc = "AwaitSummary" /\ promise["summ"].state # "pending"
  \/ pc = "AwaitDelivery" /\ promise["deliv"].state # "pending"

Frame == UNCHANGED << probe, variant, inputs, pc, git, commitData, summary, outputs,
                      failures, exitCode, calls, requests >>

\* the response's status line and headers arrive: the request callback runs
\* and registers the 'data' and 'end' handlers
ResponseArrives(c) ==
  /\ ~ResumeDue
  /\ req[c].phase = "sent"
  /\ \E st \in Statuses(c), body \in Bodies(c) :
       req' = [req EXCEPT ![c] = [ phase |-> "responding", responded |-> TRUE,
                                   status |-> st, rest |-> body,
                                   data |-> <<>>, chunks |-> 0 ]]
  /\ UNCHANGED promise
  /\ Frame

\* res 'data': data += chunk
DataArrives(c) ==
  /\ ~ResumeDue
  /\ req[c].phase = "responding"
  /\ req[c].rest # <<>>
  /\ \E n \in ChunkSizes(req[c].rest, req[c].chunks) :
       req' = [req EXCEPT ![c].data = @ \o SubSeq(req[c].rest, 1, n),
                          ![c].rest = SubSeq(@, n + 1, Len(@)),
                          ![c].chunks = @ + 1]
  /\ UNCHANGED promise
  /\ Frame

\* variant of ResponseEnds: a response with a status outside 2xx is not
\* passed on; the request is made once more
ResponseEndsRetry(c) ==
  /\ ~ResumeDue
  /\ req[c].phase = "responding"
  /\ req[c].rest = <<>>
  /\ IF req[c].status \notin 200..299 /\ Len(requests) < 3
       THEN /\ req' = [req EXCEPT ![c] = [NoRequest EXCEPT !.phase = "sent"]]
            /\ requests' = Append(requests, requests[Len(requests)])
            /\ UNCHANGED promise
       ELSE /\ req' = [req EXCEPT ![c].phase = "ended"]
            /\ promise' = [promise EXCEPT ![c] = Settle(@, OnEnd(c, req[c]))]
            /\ UNCHANGED requests
  /\ UNCHANGED << probe, variant, inputs, pc, git, commitData, summary,
                  outputs, failures, exitCode, calls >>

\* res 'end': the whole body has arrived
ResponseEnds(c) ==
  /\ ~ResumeDue
  /\ req[c].phase = "responding"
  /\ req[c].rest = <<>>
  /\ req' = [req EXCEPT ![c].phase = "ended"]
  /\ promise' = [promise EXCEPT ![c] = Settle(@, OnEnd(c, req[c]))]
  /\ Frame

\* req 'error': a connection error before or during the response
RequestError(c) ==
  /\ ~ResumeDue
  /\ req[c].phase \in {"sent", "responding"}
  /\ req' = [req EXCEPT ![c].phase = "errored"]
  /\ \E e \in TransportErrors :
       promise' = [promise EXCEPT ![c] = Settle(@, Reject(e))]
  /\ Frame

\* req 'timeout': the socket was idle for 30 s; req.destroy(), reject
RequestTimeout(c) ==
  /\ ~ResumeDue
  /\ req[c].phase \in {"sent", "responding"}
  /\ req' = [req EXCEPT ![c].phase = "destroyed"]
  /\ promise' = [promise EXCEPT ![c] = Settle(@, Reject(TimeoutMsg(c)))]
  /\ Frame

\* req 'error' ("socket hang up") raised by destroying a request that had
\* no response yet
HangUpAfterDestroy(c) ==
  /\ ~ResumeDue
  /\ req[c].phase = "destroyed"
  /\ ~req[c].responded
  /\ req' = [req EXCEPT ![c].phase = "closed"]
  /\ promise' = [promise EXCEPT ![c] = Settle(@, Reject(SocketHangUp))]
  /\ Frame

\* the peer closes the connection before the body is complete: the client
\* aborts the response and emits 'close'; neither 'end' nor the request's
\* 'error' is emitted, so no registered handler runs
ConnectionCut(c) ==
  /\ ~ResumeDue
  /\ req[c].phase = "responding"
  /\ req[c].rest # <<>>
  /\ req' = [req EXCEPT ![c].phase = "aborted"]
  /\ UNCHANGED promise
  /\ Frame

HttpEvent(c) ==
  \/ ResponseArrives(c)
  \/ DataArrives(c)
  \/ ResponseEnds(c)
  \/ RequestError(c)
  \/ RequestTimeout(c)
  \/ HangUpAfterDestroy(c)
  \/ ConnectionCut(c)

RunStep ==
  \/ ValidateConfig
  \/ ResolveSource
  \/ StartSummary
  \/ ResumeSummary
  \/ PublishSummary
  \/ ResumeDelivery

Next ==
  \/ RunStep
  \/ \E c \in Calls : HttpEvent(c)

Spec == Init /\ [][Next]_vars

(***************************************************************************)
(* The functions of sendToAPI applied to inputs of their own               *)
(***************************************************************************)

\* target URLs, built from their parts; each is a URL that new URL accepts
UrlSchemes == {"http://", "https://"}
UrlHosts   == {"x.com"}
UrlPaths   == { "", "/", "/a", "/a/", "/a//", "/generate-content",
                "/generate-content/", "/a/generate-content",
                "/a/generate-content/", "/agenerate-content",
                "/generate-content/a", "/generate" }
UrlQueries == {"", "?", "?k=v", "?p=/generate-content"}

UrlProbes ==
  { [ kind |-> "url", step |-> 0,
      scheme |-> Chars(s), host |-> Chars(h), path |-> Chars(p),
      query |-> Chars(q),
      url |-> Chars(s) \o Chars(h) \o Chars(p) \o Chars(q),
      normal |-> <<>>, request |-> <<>>, again |-> <<>> ] :
    s \in UrlSchemes, h \in UrlHosts, p \in UrlPaths, q \in UrlQueries }

\* outcomes of `git config --get remote.origin.url`: remote URLs of the
\* form host[:/]owner/name with an optional trailing segment, built from
\* their parts, and outcomes without that form
RemotePrefixes == {"git@", "https://"}
RemoteHosts    == {"github.com", "gitlab.com"}
RemoteSeps     == {":", "/"}
RemoteOwners   == {"owner", "o-2"}
RemoteNames    == {"repo", "next.js", ".github"}
RemoteSuffixes == {"", ".git", "/"}

FormedRemoteProbes ==
  { [ kind |-> "remote", step |-> 0, formed |-> TRUE,
      host |-> Chars(h), owner |-> Chars(o), name |-> Chars(n),
      suffix |-> Chars(x),
      remote |-> [ok |-> TRUE,
                  out |-> Chars(p) \o Chars(h) \o Chars(s) \o Chars(o)
                          \o <<"/">> \o Chars(n) \o Chars(x) \o <<"\n">>],
      repository |-> <<>> ] :
    p \in RemotePrefixes, h \in RemoteHosts, s \in RemoteSeps,
    o \in RemoteOwners, n \in RemoteNames, x \in RemoteSuffixes }

UnformedRemoteProbes ==
  { [ kind |-> "remote", step |-> 0, formed |-> FALSE,
      host |-> <<>>, owner |-> <<>>, name |-> <<>>, suffix |-> <<>>,
      remote |-> r, repository |-> <<>> ] :
    r \in { ExecFail, ExecOk("\n"), ExecOk("https://github.com/owner\n"),
            ExecOk("github.com\n"), ExecOk("/srv/git/repo.git\n") } }

\* what sendToAPI builds its body from: the environment (with the
\* identifier its remote URL holds, <<>> when it holds none), the commit
\* record or null, and the summary
PayloadRemotes ==
  { [remote |-> ExecOk("git@github.com:owner/repo.git\n"),
     holds |-> Chars("owner/repo")],
    [remote |-> ExecOk("/srv/git/repo.git\n"), holds |-> <<>>],
    [remote |-> ExecFail, holds |-> <<>>] }

PayloadCommits ==
  {NoCommit} \cup
  { [ null |-> FALSE, message |-> Chars("fix typo"), hash |-> Chars(h),
      shortHash |-> Substring(Chars(h), 0, 8), files |-> Chars("M\ta.js"),
      diff |-> Chars("a.js"), branch |-> Chars(b) ] :
    h \in {"0123456789abcdef", ""}, b \in {"", "dev"} }

PayloadSummaries == {Chars("- a \"b\"\n- c\\d"), <<>>}

PayloadProbes ==
  { [ kind |-> "payload", step |-> 0,
      env |-> Env(r, n, m.remote), holds |-> m.holds,
      commit |-> c, text |-> t, body |-> <<>> ] :
    r \in {"", "octo/app"}, n \in {"", "main"}, m \in PayloadRemotes,
    c \in PayloadCommits, t \in PayloadSummaries }

\* non-empty values of the `blackbox-api-key` input, of 1 to 19 characters
ProbeKeys == {"k", "bb-1234", "bb-12345", "bb-123456", "bb-0123456789abcdef"}

KeyProbes ==
  { [kind |-> "key", step |-> 0, key |-> Chars(k), lines |-> <<>>] :
    k \in ProbeKeys }

Probes ==
  UrlProbes \cup FormedRemoteProbes \cup UnformedRemoteProbes
    \cup PayloadProbes \cup KeyProbes

\* everything but the probe is as before a run, and stays so
PureInit ==
  /\ probe \in Probes
  /\ variant \in Variants
  /\ inputs = [changes |-> <<>>, blackboxApiKey |-> <<>>, apiKey |-> <<>>,
               apiUrl |-> <<>>]
  /\ pc = "Init"
  /\ git = <<>>
  /\ commitData = NoCommit
  /\ summary = <<>>
  /\ outputs = <<>>
  /\ failures = <<>>
  /\ exitCode = 0
  /\ calls = [getCommitChanges |-> 0, generateSummary |-> 0, sendToAPI |-> 0]
  /\ requests = <<>>
  /\ req = [c \in Calls |-> NoRequest]
  /\ promise = [c \in Calls |-> NoPromise]

RunUnchanged ==
  UNCHANGED << variant, inputs, pc, git, commitData, summary, outputs,
               failures, exitCode, calls, requests, req, promise >>

\* the path computation of sendToAPI on the probe's URL
NormalizePath ==
  /\ probe.kind = "url" /\ probe.step = 0
  /\ LET url == ParseURL(probe.url)
     IN  /\ url.ok
         /\ probe' = [probe EXCEPT !.step = 1,
                                   !.normal = NormalizedPath(url),
                                   !.request = RequestPath(url)]
  /\ RunUnchanged

\* the same computation on the URL whose path is the request path obtained
NormalizeAgain ==
  /\ probe.kind = "url" /\ probe.step = 1
  /\ LET url == ParseURL(probe.scheme \o probe.host \o probe.request)
     IN  /\ url.ok
         /\ probe' = [probe EXCEPT !.step = 2, !.again = RequestPath(url)]
  /\ RunUnchanged

\* the repository identifier sendToAPI takes from the remote URL
ExtractRepository ==
  /\ probe.kind = "remote" /\ probe.step = 0
  /\ probe' = [probe EXCEPT !.step = 1,
                            !.repository = RepositoryFromRemote(probe.remote)]
  /\ RunUnchanged

\* the body sendToAPI serializes for the probe's environment, commit
\* record and summary
BuildPayload ==
  /\ probe.kind = "payload" /\ probe.step = 0
  /\ probe' =
       [probe EXCEPT !.step = 1,
                     !.body = StringifyPayload(variant,
                                Payload(probe.env, probe.text, probe.commit,
                                        Now))]
  /\ RunUnchanged

\* the log lines of part_000 that are made from the summarization key (the
\* pictograph each line begins with is left out): run's list of the inputs
\* and generateSummary's notice and list of the request headers
KeyLengthNotice(key) ==
  Chars("   - blackbox-api-key: ") \o
  (IF key # <<>>
     THEN Chars("Provided (") \o NumberToString(Len(key)) \o Chars(" chars)")
     ELSE Chars("Not provided"))

ApiKeyNotice(key) ==
  Chars(" API key provided: ") \o
  (IF key # <<>>
     THEN Chars("Yes (") \o Substring(key, 0, 8) \o Chars("...)")
     ELSE Chars("No"))

AuthorizationNotice(value) ==
  Chars("   Authorization: Bearer ") \o Substring(value, 7, 15) \o Chars("...")

\* the lines a run that calls generateSummary logs about its key; index.js
\* logs none
KeyLines(v, key) ==
  IF v = "ts"
    THEN << KeyLengthNotice(key), ApiKeyNotice(key),
            AuthorizationNotice(Bearer(key)) >>
    ELSE <<>>

LogKey ==
  /\ probe.kind = "key" /\ probe.step = 0
  /\ probe' = [probe EXCEPT !.step = 1, !.lines = KeyLines(variant, probe.key)]
  /\ RunUnchanged

PureNext ==
  \/ LogKey
  \/ NormalizePath
  \/ NormalizeAgain
  \/ ExtractRepository
  \/ BuildPayload

PureSpec == PureInit /\ [][PureNext]_vars

\* The run continues whenever it can, and a request that is waiting for its
\* response or its body gets an event: the 30 s socket timeout fires if
\* nothing else does.
FairSpec ==
  /\ Spec
  /\ WF_vars(RunStep)
  /\ \A c \in Calls : WF_vars(HttpEvent(c))

(***************************************************************************)
(* Properties                                                              *)
(***************************************************************************)

IsSet(name) == name \in DOMAIN outputs

NoDeliveryRequest ==
  /\ req["deliv"].phase = "none"
  /\ \A i \in 1..Len(requests) : requests[i].call # "deliv"

NoSummaryRequest ==
  /\ req["summ"].phase = "none"
  /\ \A i \in 1..Len(requests) : requests[i].call # "summ"

\* C1: in a run with non-empty `changes` and non-empty `blackbox-api-key`,
\* getCommitChanges and generateSummary are never invoked, and from the
\* moment the summary output is published (it is, before delivery starts
\* or the run ends) it is exactly the supplied `changes`.
C1_SuppliedChangesUsedVerbatim ==
  (inputs.changes # <<>> /\ inputs.blackboxApiKey # <<>>) =>
    /\ calls.getCommitChanges = 0
    /\ calls.generateSummary = 0
    /\ NoSummaryRequest
    /\ IsSet("summary") => outputs["summary"] = inputs.changes
    /\ pc \in {"AwaitDelivery", "Done", "Failed"} => IsSet("summary")

C1_Witness ==
  /\ inputs.changes # <<>>
  /\ pc = "Done"
  /\ req["deliv"].phase = "ended"
  /\ outputs["summary"] = Chars("fix: typo in README")

\* C2: a delivery response with a status code outside 200..299 does not
\* fail the run: once run has resumed it is Done, core.setFailed was not
\* called, the exit code is 0, `status` is the decimal string of the code
\* and `response` is the received body.
C2_NonSuccessStatusIsSoft ==
  LET r == req["deliv"]
  IN  (r.phase = "ended" /\ r.status \notin 200..299 /\ pc # "AwaitDelivery") =>
        /\ pc = "Done"
        /\ failures = <<>>
        /\ exitCode = 0
        /\ outputs["response"] = r.data
        /\ outputs["status"] =
             CASE r.status = 300 -> <<"3", "0", "0">>
               [] r.status = 404 -> <<"4", "0", "4">>
               [] r.status = 500 -> <<"5", "0", "0">>

C2_Witness ==
  /\ req["deliv"].phase = "ended"
  /\ req["deliv"].status = 404
  /\ req["deliv"].data = Chars("{\"error\":\"not found\"}")
  /\ pc = "Done"
  /\ outputs["status"] = <<"4", "0", "4">>

\* C3: with an empty `api-url`, sendToAPI is never invoked and no delivery
\* request is made; once the summary is resolved and published the run is
\* Done with exit code 0, `status` "200" and the placeholder `response`.
C3_NoUrlSkipsDelivery ==
  inputs.apiUrl = <<>> =>
    /\ calls.sendToAPI = 0
    /\ NoDeliveryRequest
    /\ pc # "AwaitDelivery"
    /\ (IsSet("summary") \/ pc = "Done") =>
         /\ pc = "Done"
         /\ failures = <<>>
         /\ exitCode = 0
         /\ outputs["status"] = <<"2", "0", "0">>
         /\ outputs["response"] =
              Chars("No API configured - summary generated only")

C3_Witness ==
  /\ inputs.apiUrl = <<>>
  /\ inputs.apiKey # <<>>
  /\ calls.generateSummary = 1
  /\ pc = "Done"
  /\ outputs["status"] = <<"2", "0", "0">>

\* C4: with an empty `blackbox-api-key` the run fails with the
\* configuration error whatever the other inputs are; no component is
\* invoked, no request is made and no output is set.
C4_MissingKeyFailsBeforeAnything ==
  inputs.blackboxApiKey = <<>> =>
    /\ pc \in {"Init", "Failed"}
    /\ calls.getCommitChanges = 0
    /\ calls.generateSummary = 0
    /\ calls.sendToAPI = 0
    /\ requests = <<>>
    /\ outputs = <<>>
    /\ pc = "Failed" =>
         /\ failures = <<Chars("BlackBox API key is required")>>
         /\ exitCode = 1

C4_Witness ==
  /\ inputs.blackboxApiKey = <<>>
  /\ inputs.changes # <<>>
  /\ inputs.apiUrl # <<>>
  /\ pc = "Failed"

\* C5: when generateSummary fails (its promise rejects: transport error,
\* timeout or invalid response), the run ends in Failed with exit code 1
\* and that failure's message, and sendToAPI is never invoked: no delivery
\* request follows a summarization failure.
C5_SummaryFailureStopsRun ==
  promise["summ"].state = "rejected" =>
    /\ inputs.changes = <<>>
    /\ pc \in {"AwaitSummary", "Failed"}
    /\ calls.sendToAPI = 0
    /\ NoDeliveryRequest
    /\ pc = "Failed" =>
         /\ failures = <<promise["summ"].err>>
         /\ exitCode = 1

C5_Witness ==
  /\ promise["summ"].state = "rejected"
  /\ promise["summ"].err = Chars("BlackBox AI request timeout")
  /\ inputs.apiUrl # <<>>
  /\ inputs.apiKey # <<>>
  /\ pc = "Failed"

\* getCommitChanges has run one of its queries and the query threw:
\* message, hash, files, diff and the primary branch query always run (each
\* only if those before it succeeded); the alternate branch query runs in
\* index.js after an empty primary result, in part_000 after a failed one.
SomeQueryFailed ==
  /\ calls.getCommitChanges = 1
  /\ \/ ~git.message.ok \/ ~git.hash.ok \/ ~git.files.ok \/ ~git.diff.ok
     \/ ~git.branch1.ok
     \/ variant = "js" /\ Trim(git.branch1.out) = <<>> /\ ~git.branch2.ok

\* part_000 makes up for a failed primary branch query with the alternate
PrimaryBranchFailureRecovered ==
  /\ calls.getCommitChanges = 1
  /\ variant = "ts"
  /\ git.message.ok /\ git.hash.ok /\ git.files.ok /\ git.diff.ok
  /\ ~git.branch1.ok /\ git.branch2.ok

ExtractionFailureStopsRun ==
  /\ commitData = NoCommit
  /\ pc \in {"AwaitCommit", "Failed"}
  /\ calls.generateSummary = 0
  /\ calls.sendToAPI = 0
  /\ requests = <<>>
  /\ pc = "Failed" =>
       /\ exitCode = 1
       /\ failures =
            <<Chars("Could not retrieve commit data and no changes provided")>>

\* C6 as stated: whenever any repository query of getCommitChanges fails,
\* getCommitChanges returns null (it does not throw: the run fails with its
\* own message), the run ends in Failed and neither generateSummary nor
\* sendToAPI is invoked.
C6_AnyQueryFailureIsNull ==
  SomeQueryFailed => ExtractionFailureStopsRun

\* C6 as amended: the same, for every query failure except the failure of
\* the primary branch query that part_000 makes up for with the alternate
\* branch query.
C6_UnrecoveredQueryFailureIsNull ==
  (SomeQueryFailed /\ ~PrimaryBranchFailureRecovered) => ExtractionFailureStopsRun

C6_Witness ==
  /\ SomeQueryFailed
  /\ git.message.ok /\ git.hash.ok /\ git.files.ok /\ ~git.diff.ok
  /\ commitData = NoCommit
  /\ pc = "Failed"

\* C7: when delivery is attempted and sendToAPI fails with a transport
\* error or a timeout before the response is complete, the run ends in
\* Failed with exit code 1 and that failure's message.
C7_DeliveryTransportFailureIsHard ==
  (req["deliv"].phase \in {"errored", "destroyed", "closed"}
     /\ pc # "AwaitDelivery") =>
    /\ pc = "Failed"
    /\ exitCode = 1
    /\ Len(failures) = 1
    /\ failures[1] \in
         { Chars("Request timeout"), Chars("getaddrinfo ENOTFOUND"),
           Chars("connect ECONNREFUSED"), Chars("read ECONNRESET") }
    /\ req["deliv"].phase = "errored" <=> failures[1] # Chars("Request timeout")
    /\ ~IsSet("response") /\ ~IsSet("status")

C7_Witness ==
  /\ req["deliv"].phase = "destroyed"
  /\ req["deliv"].responded
  /\ pc = "Failed"
  /\ failures = <<Chars("Request timeout")>>

\* C8: every run ends in exactly one of the two terminal states, Done
\* (core.setFailed never called, exit code 0) or Failed (core.setFailed
\* called once with a message, exit code 1), and no run stays suspended in
\* a non-terminal state: every step moves the run or one of its requests
\* forward and none can be repeated, so a run fails to terminate under
\* FairSpec exactly when it reaches a non-terminal state in which no step
\* is possible any more.
C8_EveryRunTerminates ==
  /\ pc \notin {"Done", "Failed"} => ENABLED Next
  /\ pc = "Done" => failures = <<>> /\ exitCode = 0
  /\ pc = "Failed" => Len(failures) = 1 /\ failures[1] # <<>> /\ exitCode = 1

\* response bodies that are not JSON
MalformedBodies ==
  { Chars("{\"choices\":[{\"mess"), Chars("<html>502</html>"), <<>> }

\* response bodies that are JSON but lack `choices`, `choices[0].message`
\* or `message.content`
IncompleteBodies ==
  { Chars("{\"error\":\"bad key\"}"), Chars("{}"), Chars("null"),
    Chars("{\"choices\":[]}"), Chars("{\"choices\":[{}]}"),
    Chars("{\"choices\":[{\"message\":{}}]}"),
    Chars("{\"choices\":[{\"message\":\"hi\"}]}") }

\* the two messages of an invalid-response-shape failure
IsShapeFailure(msg) ==
  \/ msg = Chars("Invalid response format from BlackBox AI")
  \/ StartsWith(msg, Chars("Failed to parse BlackBox AI response: "))

\* C9: when the summarization response ends with a body that is malformed
\* JSON or lacks `choices`, `choices[0].message` or `message.content`,
\* generateSummary rejects with an invalid-response-shape failure, whose
\* message is none of the transport-error messages nor the timeout
\* message; no summary is returned and the run ends in Failed with it.
C9_BadShapeIsShapeFailure ==
  LET r == req["summ"]
      p == promise["summ"]
  IN  (r.phase = "ended" /\ r.data \in MalformedBodies \cup IncompleteBodies) =>
        /\ p.state = "rejected"
        /\ IsShapeFailure(p.err)
        /\ p.err \notin TransportErrors \cup {SocketHangUp}
        /\ p.err # Chars("BlackBox AI request timeout")
        /\ summary = <<>>
        /\ ~IsSet("summary")
        /\ pc \in {"AwaitSummary", "Failed"}
        /\ pc = "Failed" => failures = <<p.err>> /\ exitCode = 1

C9_Witness ==
  /\ req["summ"].phase = "ended"
  /\ req["summ"].data = Chars("{\"choices\":[{\"message\":{}}]}")
  /\ pc = "Failed"
  /\ IsShapeFailure(failures[1])

\* the parsed body has a non-empty `choices` array whose first element has
\* a `message` with a string `content`
HasSummaryShape(body) ==
  /\ body.t = "obj"
  /\ LET choices == Lookup(body.v, Chars("choices"))
     IN  /\ choices.t = "arr"
         /\ choices.v # <<>>
         /\ choices.v[1].t = "obj"
         /\ LET message == Lookup(choices.v[1].v, Chars("message"))
            IN  /\ message.t = "obj"
                /\ Lookup(message.v, Chars("content")).t = "str"

ContentOf(body) ==
  Lookup(Lookup(Lookup(body.v, Chars("choices")).v[1].v, Chars("message")).v,
         Chars("content")).v

\* C10: when the summarization response ends with a body that parses,
\* generateSummary succeeds exactly when the parsed body has a non-empty
\* `choices` array whose first element has a string `message.content`, and
\* then returns that string without its leading and trailing whitespace
\* (" Hello " gives "Hello").
C10_SuccessOnlyForSummaryShape ==
  LET r == req["summ"]
      p == promise["summ"]
      parsed == JSONParse(r.data)
  IN  (r.phase = "ended" /\ parsed.ok) =>
        /\ p.state = "resolved" <=> HasSummaryShape(parsed.val)
        /\ p.state = "resolved" =>
             /\ p.val = Trim(ContentOf(parsed.val))
             /\ p.val = <<>> \/ (p.val[1] # " " /\ p.val[Len(p.val)] # "\n")
        /\ r.data = Chars("{\"choices\":[{\"message\":{\"content\":\" Hello \"}}]}")
             => p.val = Chars("Hello")

(***************************************************************************)
(* Path normalization                                                      *)
(***************************************************************************)

\* C11: for every target URL the normalized path ends with
\* "/generate-content", and not with that segment twice in a row; and
\* normalizing the URL whose path is the request path obtained yields the
\* same request path.
C11_NormalizedOnceAndIdempotent ==
  probe.kind = "url" =>
    /\ probe.step >= 1 =>
         /\ EndsWith(probe.normal, GenerateContent)
         /\ ~EndsWith(probe.normal, GenerateContent \o GenerateContent)
    /\ probe.step = 2 => probe.again = probe.request

\* the query of the probe's URL as the target receives it: a lone "?" is
\* an empty query
OriginalQuery == IF probe.query = <<"?">> THEN <<>> ELSE probe.query

\* C12: when the URL's path ends with "/generate-content" the request path
\* is that path followed by the URL's query, both unchanged; otherwise the
\* request path is the path without its trailing slash, then
\* "/generate-content", then the URL's query.
C12_QueryKeptAfterPath ==
  (probe.kind = "url" /\ probe.step >= 1) =>
    IF EndsWith(probe.path, GenerateContent)
      THEN probe.request = probe.path \o OriginalQuery
      ELSE /\ EndsWith(probe.request, GenerateContent \o OriginalQuery)
           /\ \E n \in 0..1 :
                /\ probe.request =
                     SubSeq(probe.path, 1, Len(probe.path) - n)
                       \o GenerateContent \o OriginalQuery
                /\ n = 1 => probe.path[Len(probe.path)] = "/"

\* both cases of C12 with a query: a path that is kept and one that is
\* extended
C12_Witness ==
  /\ probe.kind = "url" /\ probe.step >= 1
  /\ probe.query = Chars("?k=v")
  /\ probe.path \in {Chars("/a/generate-content"), Chars("/a/")}
  /\ probe.request \in {Chars("/a/generate-content?k=v")}

(***************************************************************************)
(* Configuration of the delivery                                           *)
(***************************************************************************)

DeliveryAttempted == calls.sendToAPI > 0 \/ ~NoDeliveryRequest

\* C13 as stated: sendToAPI is invoked, and a delivery request made, only
\* in runs whose `api-key` and `api-url` are both non-empty.
C13_DeliveryOnlyWithKeyAndUrl ==
  DeliveryAttempted => inputs.apiKey # <<>> /\ inputs.apiUrl # <<>>

\* C13: index.js invokes sendToAPI only when `api-key` and `api-url` are
\* both non-empty, part_000 only when `api-url` is non-empty (it does not
\* read `api-key`); no run makes a delivery request otherwise, and a run
\* that has published its summary without this configuration is Done.
C13_DeliveryOnlyWithConfiguration ==
  /\ DeliveryAttempted =>
       /\ inputs.apiUrl # <<>>
       /\ variant = "js" => inputs.apiKey # <<>>
  /\ (variant = "js" /\ inputs.apiKey = <<>> /\ IsSet("summary")) =>
       pc = "Done" /\ NoDeliveryRequest

C13_Witness ==
  /\ variant = "js"
  /\ inputs.apiUrl # <<>> /\ inputs.apiKey = <<>>
  /\ pc = "Done"
  /\ calls.sendToAPI = 0 /\ NoDeliveryRequest

C15_DeliveryCarriesBearer ==
  \A i \in 1..Len(requests) :
    (requests[i].call = "deliv" /\ inputs.apiKey # <<>>) =>
      /\ requests[i].authorization = Chars("Bearer ") \o inputs.apiKey
      /\ requests[i].contentType = Chars("application/json")
      /\ requests[i].contentLength = Len(requests[i].body)
      /\ requests[i].userAgent = Chars("GitHub-Action-Send-Changes/1.0")

(***************************************************************************)
(* Outputs of a completed run                                              *)
(***************************************************************************)

\* the decimal text of the status codes the delivery endpoint answers with
StatusText(n) ==
  CASE n = 200 -> Chars("200") [] n = 204 -> Chars("204")
    [] n = 299 -> Chars("299") [] n = 300 -> Chars("300")
    [] n = 404 -> Chars("404") [] n = 500 -> Chars("500")

\* C16: in Done exactly the outputs summary, response and status are set;
\* summary is the resolved summary (the supplied changes, or else what
\* generateSummary resolved with); response and status are the body and the
\* decimal status code of the one delivery response, which has ended, or
\* the placeholder pair when sendToAPI was not called.
C16_DoneHasThreeOutputs ==
  pc = "Done" =>
    /\ DOMAIN outputs = {"summary", "response", "status"}
    /\ outputs["summary"] = summary
    /\ IF inputs.changes # <<>>
         THEN summary = inputs.changes
         ELSE promise["summ"].state = "resolved"
              /\ summary = promise["summ"].val
    /\ IF calls.sendToAPI = 0
         THEN /\ NoDeliveryRequest
              /\ outputs["response"] =
                   Chars("No API configured - summary generated only")
              /\ outputs["status"] = Chars("200")
         ELSE /\ calls.sendToAPI = 1
              /\ Cardinality({i \in 1..Len(requests) :
                                requests[i].call = "deliv"}) = 1
              /\ req["deliv"].responded
              /\ outputs["response"] = req["deliv"].data
              /\ req["deliv"].rest = <<>>
              /\ outputs["status"] = StatusText(req["deliv"].status)

C16_Witness ==
  /\ pc = "Done"
  /\ inputs.changes = <<>>
  /\ calls.sendToAPI = 1
  /\ outputs["status"] = Chars("404")
  /\ outputs["response"] = Chars("{\"error\":\"not found\"}")

(***************************************************************************)
(* Repository identifier                                                   *)
(***************************************************************************)

\* C17: from a remote URL of the form host[:/]owner/name, with or without a
\* trailing segment, the extraction yields owner/name; it yields the
\* sentinel "unknown/repository" only when the URL lacks that form or the
\* remote query fails.
C17_ExtractionYieldsOwnerAndName ==
  (probe.kind = "remote" /\ probe.step = 1) =>
    /\ probe.formed =>
         probe.repository = probe.owner \o <<"/">> \o probe.name
    /\ probe.repository = Chars("unknown/repository") => ~probe.formed

(***************************************************************************)
(* The commit record                                                       *)
(***************************************************************************)

\* the first n elements of s, all of s when it has fewer
Prefix(s, n) == [i \in 1..(IF Len(s) < n THEN Len(s) ELSE n) |-> s[i]]

\* C18: in every commit record shortHash is a prefix of hash: its first 8
\* characters when hash has at least 8, hash itself when it is shorter; and
\* once getCommitChanges has returned the record no step changes it.
C18_ShortHashIsPrefixOfHash ==
  /\ [](~commitData.null =>
          /\ commitData.shortHash = Prefix(commitData.hash, 8)
          /\ Len(commitData.hash) >= 8 => Len(commitData.shortHash) = 8
          /\ Len(commitData.hash) < 8 => commitData.shortHash = commitData.hash)
  /\ [][~commitData.null => commitData' = commitData]_vars

\* a record with a hash of 7 characters, at the end of a run that used it
C18_Witness ==
  /\ ~commitData.null
  /\ Len(commitData.hash) = 7
  /\ commitData.shortHash = commitData.hash
  /\ calls.generateSummary = 1
  /\ pc = "Done"

(***************************************************************************)
(* Outcomes of the remote calls                                            *)
(***************************************************************************)

\* the request of call c was destroyed by its 'timeout' handler
TimedOut(c) == req[c].phase \in {"destroyed", "closed"}

TimeoutText(c) ==
  IF c = "summ" THEN Chars("BlackBox AI request timeout")
                ELSE Chars("Request timeout")

\* C19: when the timeout fires on a request that has neither ended nor
\* failed, the request is destroyed and the call's promise is rejected with
\* the call's timeout message, which is none of the transport errors'
\* messages; it stays so when destroying the request raises 'error'
\* ("socket hang up"), and the run that resumes fails with that message.
C19_TimeoutOutcomeIsKept ==
  \A c \in Calls :
    TimedOut(c) =>
      /\ promise[c].state = "rejected"
      /\ promise[c].err = TimeoutText(c)
      /\ promise[c].err \notin TransportErrors \cup {Chars("socket hang up")}
      /\ pc \in {"Done", "Failed"} =>
           /\ pc = "Failed"
           /\ failures = <<TimeoutText(c)>>

\* the delivery timed out without a response, the hang-up error followed
C19_Witness ==
  /\ req["deliv"].phase = "closed"
  /\ ~req["deliv"].responded
  /\ pc = "Failed"
  /\ failures = <<Chars("Request timeout")>>

\* call c was made and can get no further event
Finished(c) ==
  req[c].phase \in {"ended", "errored", "destroyed", "closed", "aborted"}

Settled(c) == promise[c].state \in {"resolved", "rejected"}

\* C20: a call that gets no further event has yielded its outcome; a
\* yielded outcome is never replaced, whatever event follows; and in Done
\* and Failed the outputs, the failures and the exit code stay as they are.
C20_ExactlyOneOutcome ==
  /\ [](\A c \in Calls : Finished(c) => Settled(c))
  /\ [][\A c \in Calls : Settled(c) => promise'[c] = promise[c]]_vars
  /\ [][(pc \in {"Done", "Failed"}) =>
          (pc' = pc /\ outputs' = outputs /\ failures' = failures
             /\ exitCode' = exitCode)]_vars

(***************************************************************************)
(* Order of the requests                                                   *)
(***************************************************************************)

\* the request of call c waits for its response or for the rest of it
InFlight(c) == req[c].phase \in {"sent", "responding"}

RequestsTo(c) == {i \in 1..Len(requests) : requests[i].call = c}

\* C21: the two requests are never in flight together; each endpoint is
\* requested at most once, whatever failure or status code it answers with,
\* and each component called at most once; and a delivery request exists
\* only when the summary is resolved: the supplied changes were taken, or
\* the summarization response has ended and its promise is resolved.
C21_OneRequestAtATime ==
  /\ ~(InFlight("summ") /\ InFlight("deliv"))
  /\ \A c \in Calls : Cardinality(RequestsTo(c)) <= 1
  /\ calls.generateSummary <= 1 /\ calls.sendToAPI <= 1
  /\ RequestsTo("deliv") # {} =>
       /\ IF inputs.changes # <<>>
            THEN RequestsTo("summ") = {} /\ summary = inputs.changes
            ELSE /\ req["summ"].phase = "ended"
                 /\ promise["summ"].state = "resolved"
                 /\ summary = promise["summ"].val
       /\ \A i \in RequestsTo("summ"), j \in RequestsTo("deliv") : i < j

\* both endpoints were requested, the delivery answered 500, the run is over
C21_Witness ==
  /\ RequestsTo("summ") # {} /\ RequestsTo("deliv") # {}
  /\ req["summ"].status = 500
  /\ req["deliv"].phase = "ended" /\ req["deliv"].status = 500
  /\ pc = "Done"

(***************************************************************************)
(* The delivery request body                                               *)
(***************************************************************************)

\* the string member `key` of the JSON object text s, or <<"?">> when s is
\* no JSON object or has no such string member
Member(s, key) ==
  LET parsed == JSONParse(s)
  IN  IF ~parsed.ok \/ parsed.val.t # "obj" THEN <<"?">>
      ELSE LET m == Lookup(parsed.val.v, Chars(key))
           IN  IF m.t = "str" THEN m.v ELSE <<"?">>

\* C22: the body is a JSON object in which repository is the environment's
\* identifier if non-empty, else the identifier the remote URL holds, else
\* "unknown/repository"; commit_sha is the commit record's hash, "unknown"
\* without a commit record (or with an empty hash); branch is the record's branch if non-empty,
\* else the environment's ref name if non-empty, else "unknown"; and
\* summary is the summary as it was passed.
C22_PayloadFallbacks ==
  (probe.kind = "payload" /\ probe.step = 1) =>
    /\ Member(probe.body, "repository") =
         (IF probe.env.GITHUB_REPOSITORY # <<>>
            THEN probe.env.GITHUB_REPOSITORY
          ELSE IF probe.holds # <<>> THEN probe.holds
          ELSE Chars("unknown/repository"))
    /\ Member(probe.body, "commit_sha") =
         (IF ~probe.commit.null /\ probe.commit.hash # <<>>
            THEN probe.commit.hash ELSE Chars("unknown"))
    /\ Member(probe.body, "branch") =
         (IF ~probe.commit.null /\ probe.commit.branch # <<>>
            THEN probe.commit.branch
          ELSE IF probe.env.GITHUB_REF_NAME # <<>>
            THEN probe.env.GITHUB_REF_NAME
          ELSE Chars("unknown"))
    /\ Member(probe.body, "summary") = probe.text

\* every chain at its last value, with a summary that needs escaping
C22_Witness ==
  /\ probe.kind = "payload" /\ probe.step = 1
  /\ probe.commit.null
  /\ probe.text # <<>>
  /\ Member(probe.body, "repository") = Chars("unknown/repository")
  /\ Member(probe.body, "commit_sha") = Chars("unknown")
  /\ Member(probe.body, "branch") = Chars("unknown")

(***************************************************************************)
(* The branch of the commit record                                         *)
(***************************************************************************)

\* getCommitChanges has run and its queries other than the branch queries
\* succeeded
BranchDecides ==
  /\ calls.getCommitChanges = 1
  /\ git.message.ok /\ git.hash.ok /\ git.files.ok /\ git.diff.ok

\* there is a commit record and its branch is the trimmed output `out`
BranchIs(out) == ~commitData.null /\ commitData.branch = Trim(out)

\* C23 as stated: the branch is the primary query's result whenever that
\* query succeeds, the empty string included; when it fails and the
\* alternate query succeeds the branch is the alternate's result.
C23_AlternateOnlyOnFailure ==
  BranchDecides =>
    /\ git.branch1.ok => BranchIs(git.branch1.out)
    /\ (~git.branch1.ok /\ git.branch2.ok) => BranchIs(git.branch2.out)

\* C23: part_000 behaves as stated, and returns null when both queries
\* fail.  index.js takes the primary query's result when it is not empty
\* and the alternate's when the primary's is empty (null if the alternate
\* fails then); a failing primary query makes it return null.
C23_AlternatePerVariant ==
  BranchDecides =>
    IF variant = "ts"
      THEN /\ git.branch1.ok => BranchIs(git.branch1.out)
           /\ (~git.branch1.ok /\ git.branch2.ok) => BranchIs(git.branch2.out)
           /\ (~git.branch1.ok /\ ~git.branch2.ok) => commitData.null
      ELSE /\ (git.branch1.ok /\ Trim(git.branch1.out) # <<>>) =>
                BranchIs(git.branch1.out)
           /\ (git.branch1.ok /\ Trim(git.branch1.out) = <<>>) =>
                IF git.branch2.ok THEN BranchIs(git.branch2.out)
                                  ELSE commitData.null
           /\ ~git.branch1.ok => commitData.null

\* index.js on a detached HEAD: the primary query prints nothing, the
\* record's branch is the alternate's "HEAD"
C23_Witness ==
  /\ BranchDecides
  /\ variant = "js"
  /\ git.branch1.ok /\ Trim(git.branch1.out) = <<>>
  /\ BranchIs(Chars("HEAD"))
  /\ pc = "AwaitSummary"

(***************************************************************************)
(* Credentials in the log                                                  *)
(***************************************************************************)

\* the sequence t occurs in the sequence s
Contains(s, t) ==
  \E i \in 1..(Len(s) - Len(t) + 1) : SubSeq(s, i, i + Len(t) - 1) = t

\* C24: no log line made from a key contains the whole key, whatever the
\* length of the key.
C24_NoFullKeyInLog ==
  (probe.kind = "key" /\ probe.step = 1) =>
    \A i \in 1..Len(probe.lines) : ~Contains(probe.lines[i], probe.key)

(***************************************************************************)
(* The status code of the summarization response                           *)
(***************************************************************************)

\* C25: when the summarization response has ended, the outcome of
\* generateSummary (looked at when it is yielded, before run resumes) is
\* what the body alone gives, whatever the status code:
\* a body of the expected shape resolves to its trimmed content, an empty
\* object is rejected as an invalid format, with status 200 and 500 alike.
C25_SummaryOutcomeFromBodyAlone ==
  req["summ"].phase = "ended" =>
    /\ pc = "AwaitSummary" =>
         promise["summ"] = Settle(Pending, SummaryOnEnd(req["summ"].data))
    /\ req["summ"].data =
         Chars("{\"choices\":[{\"message\":{\"content\":\" Hello \"}}]}") =>
           /\ promise["summ"].state = "resolved"
           /\ promise["summ"].val = Chars("Hello")
    /\ req["summ"].data = Chars("{}") =>
         /\ promise["summ"].state = "rejected"
         /\ promise["summ"].err =
              Chars("Invalid response format from BlackBox AI")

\* a 500 response with a body of the expected shape: the run completes with
\* its content as the summary
C25_Witness ==
  /\ req["summ"].phase = "ended"
  /\ req["summ"].status = 500
  /\ promise["summ"].state = "resolved"
  /\ pc = "Done"
  /\ outputs["summary"] = Chars("Hello")

(***************************************************************************)
(* Outputs of a failed run                                                 *)
(***************************************************************************)

\* the messages a failure of the delivery stage has
DeliveryFailures ==
  { Chars("Invalid URL"), Chars("Request timeout"),
    Chars("getaddrinfo ENOTFOUND"), Chars("connect ECONNREFUSED"),
    Chars("read ECONNRESET") }

\* C26: once sendToAPI was called the summary output is set, to the
\* resolved summary; an output that is set is never unset nor changed; and
\* in Failed neither response nor status is set, and summary is set exactly
\* when sendToAPI was called, the failure then being the rejection of the
\* delivery (unparseable url, transport error or timeout): without that
\* call no output is set at all.
C26_OutputsOfFailedRun ==
  /\ [](calls.sendToAPI > 0 =>
          IsSet("summary") /\ outputs["summary"] = summary)
  /\ [][\A n \in DOMAIN outputs :
          n \in DOMAIN outputs' /\ outputs'[n] = outputs[n]]_vars
  /\ [](pc = "Failed" =>
          /\ ~IsSet("response") /\ ~IsSet("status")
          /\ IsSet("summary") <=> calls.sendToAPI > 0
          /\ Len(failures) = 1
          /\ calls.sendToAPI > 0 =>
               /\ failures[1] \in DeliveryFailures
               /\ promise["deliv"].state = "rejected"
          /\ calls.sendToAPI = 0 => outputs = <<>>)

\* the delivery timed out: the run failed with its summary output set
C26_Witness ==
  /\ pc = "Failed"
  /\ failures = <<Chars("Request timeout")>>
  /\ inputs.changes # <<>>
  /\ outputs = SetOutput(<<>>, "summary", inputs.changes)

====
